---------------------------- MODULE Spec2Model ----------------------------
(***************************************************************************)
(* A model of gp-net.py (the command-line driver: train/test split, k-fold *)
(* cross-validation, repeat and no-repeat active learning) and of          *)
(* optimizers/adam.py (the Gaussian-process fits adam.train_test_split,    *)
(* adam.k_fold and adam.active).                                           *)
(*                                                                         *)
(* Abstractions.                                                           *)
(*  - A sample (structure, latent point, DFT target) is an index 1..nfull; *)
(*    an array X.. and its target array y.. are one sequence of indices,   *)
(*    since the source slices and passes them in lockstep.                 *)
(*  - Fractions (-stop, -frac) are numbers of tenths: 9 stands for 0.9.    *)
(*  - A kernel hyperparameter is Exp(raw) with raw an integer number of    *)
(*    steps, so the values are 1, 2, 4 in units of Exp(-1); a raw value at *)
(*    Under or Over is one whose float64 exponential is 0 or infinity.     *)
(*  - The numerics of tensorflow-probability (the Adam step, the posterior *)
(*    mean/variance, the error metrics) are outside the repository: an     *)
(*    Adam step moves each raw variable by a chosen delta, an error metric *)
(*    is a chosen value (possibly NaN), a posterior is the record of what  *)
(*    it was conditioned on; the values of its variance vector are chosen  *)
(*    where the selector reads them.                                       *)
(*  - aux/ (megnet_input, latent, pool_sampling.selection_fn) is not part  *)
(*    of the sources at hand; the selector and the repeat-mode split are   *)
(*    modelled from the specification.                                     *)
(***************************************************************************)
EXTENDS Integers, Sequences, FiniteSets, TLC

(***************************************************************************)
(* Bounds of the model.                                                    *)
(***************************************************************************)
MaxFull  == 5      \* largest dataset size
MaxQuery == 2      \* largest -cycle value (samples per cycle / cycles)
MaxIters == 2      \* largest -maxiters value
MaxProps == 2      \* largest number of properties in one invocation
MaxSplit == 3      \* largest -nsplit value

(***************************************************************************)
(* Values standing for Python/numpy objects.                               *)
(***************************************************************************)
NaN  == 0 - 1      \* float("nan") in a numpy array
None == 0 - 2      \* Python None

Max2(a, b) == IF a >= b THEN a ELSE b
Min2(a, b) == IF a <= b THEN a ELSE b

\* int(x) of a float x = n/d (d > 0): truncation toward zero.
PyInt(n, d) == IF n >= 0 THEN n \div d ELSE 0 - ((0 - n) \div d)

\* Python `a and b` on numbers: a if a is falsy (zero), else b.
PyAnd(a, b) == IF a = 0 THEN a ELSE b

\* Normalisation of a slice bound k for a sequence of length n.
SliceBound(k, n) == IF k < 0 THEN Max2(k + n, 0) ELSE Min2(k, n)

\* s[:k] and s[k:] of Python.
SliceTo(s, k)   == SubSeq(s, 1, SliceBound(k, Len(s)))
SliceFrom(s, k) == SubSeq(s, SliceBound(k, Len(s)) + 1, Len(s))

Range(s) == {s[j] : j \in 1..Len(s)}

\* range(n) of Python as the sequence 1..n of sample indices.
Iota(n) == [j \in 1..n |-> j]

(***************************************************************************)
(* The positivity-preserving bijector tfb.Exp(): value = Exp(raw).         *)
(***************************************************************************)
\* the values of an unconstrained variable in the model
Raws == {0 - 1, 0, 1}

RECURSIVE Pow2(_)
Pow2(n) == IF n <= 0 THEN 1 ELSE 2 * Pow2(n - 1)

\* an unconstrained variable below (above) the range in which the float64
\* exponential is neither 0 nor inf
Under == 0 - 8
Over  == 8
AllRaws == Raws \cup {Under, Over}

\* the float64 inf
Inf == Pow2(Over)

\* in units of Exp(-1); the float64 exponential underflows to 0 and
\* overflows to inf
Exp(r) == IF r <= Under THEN 0 ELSE IF r >= Over THEN Inf ELSE Pow2(r + 1)

\* The inverse, used by TransformedVariable(initial_value=...).
Log(v) == CHOOSE r \in AllRaws : Exp(r) = v

HyperVals == {Exp(r) : r \in AllRaws}

(***************************************************************************)
(* numpy/Python reductions over a trace of validation errors.              *)
(***************************************************************************)
\* x < y of IEEE floats: false when either side is NaN.
Less(x, y) == x # NaN /\ y # NaN /\ x < y

\* np.argmin: the first NaN if there is one, else the first minimum
\* (1-based here).
ArgMin(s) ==
    IF \E j \in 1..Len(s) : s[j] = NaN
    THEN CHOOSE j \in 1..Len(s) : s[j] = NaN /\ \A k \in 1..(j-1) : s[k] # NaN
    ELSE CHOOSE j \in 1..Len(s) : /\ \A k \in 1..Len(s) : s[j] <= s[k]
                                  /\ \A k \in 1..(j-1) : s[k] > s[j]

\* The builtin min() over an array: keeps the first element unless a later
\* one compares smaller.
RECURSIVE PyMinFrom(_, _, _)
PyMinFrom(s, j, m) ==
    IF j > Len(s) THEN m
    ELSE PyMinFrom(s, j + 1, IF Less(s[j], m) THEN s[j] ELSE m)

PyMin(s) == PyMinFrom(s, 2, s[1])

\* np.min: NaN if any element is NaN.
NpMin(s) == IF \E j \in 1..Len(s) : s[j] = NaN THEN NaN ELSE PyMin(s)

(***************************************************************************)
(* tfd.GaussianProcessRegressionModel(kernel(amp, length), index_points,   *)
(* observation_index_points, observations): what a posterior is of.        *)
(***************************************************************************)
GPRM(a, l, index_points, observation_points) ==
    [amp |-> a, length |-> l, index |-> index_points, obs |-> observation_points]

\* the negative log marginal likelihood -gp.log_prob(y) at (a, l)
LossFn(a, l, points) == [amp |-> a, length |-> l, index |-> points]

\* an error metric of a posterior mean against targets (test set)
Metric(name, targets, gp) == [metric |-> name, y |-> targets, of |-> gp]

\* gprm.mean(), gprm.stddev(), gprm.variance(): vectors over gp.index
Moment(name, gp) == [moment |-> name, of |-> gp]

\* the values an error metric and a posterior variance take in the model
ErrVals == {1, 2, NaN}
VarVals == {1, 2}

(***************************************************************************)
(* State.                                                                  *)
(***************************************************************************)
VARIABLES
    \* command-line arguments after the `or Params()` defaults (gp-net.py 163-186)
    noactive, repeat, nsplit, samp, cycle, quan, stop, fraction, maxitersArg,
    rate,
    \* np.shape(tsne_train)[1]: the number of features of a latent point
    feature_ndims,
    \* variables of main() that the fits read and overwrite
    maxiters, amp, length_scale,
    \* the datasets: nprops properties, each with nfull samples
    nprops, nfull,
    \* control: position in main(), property index, cycle index, fold index
    pc, prop, i, fold,
    \* the partitions
    Xpool, Xtrain, Xval, Xtest,
    \* the k-fold splits produced by KFold.split
    kf,
    \* the frame of the running adam.* call and its optimisation loop
    call, raw, it, OptLoss, OptAmp, OptLength, Optmae, Optmse, Optsae, gprm_dft,
    \* what the last fit returned to main(), until the cycle (or fold) that
    \* unpacked it ends: nothing reads it after that
    ret,
    \* per-cycle / per-fold records
    training_data, Optmae_val_cycle, mae_test_cycle, samp_idx,
    OptAmp_fold, Optmae_val_fold,
    \* history: the partitions at the start of the active-learning loop, the
    \* log of fit invocations, the log of migrations, the variance values the
    \* entropy selector read in the migration that has just happened
    split0, fits, migs, gp_variance,
    \* history: the hyperparameters returned by the fit of cycle 0
    hyp0

argVars   == <<noactive, repeat, nsplit, samp, cycle, quan, stop, fraction,
               maxitersArg, rate, feature_ndims, nprops, nfull>>
partVars  == <<Xpool, Xtrain, Xval, Xtest>>
loopVars  == <<raw, it, OptLoss, OptAmp, OptLength, Optmae, Optmse, Optsae, gprm_dft>>
cycleVars == <<training_data, Optmae_val_cycle, mae_test_cycle, samp_idx>>
foldVars  == <<kf, fold, OptAmp_fold, Optmae_val_fold>>
vars == <<argVars, maxiters, amp, length_scale, pc, prop, i, partVars, foldVars,
          call, loopVars, ret, cycleVars, split0, fits, migs, gp_variance, hyp0>>

query     == cycle[1]      \* gp-net.py 375
max_query == cycle[2]      \* gp-net.py 376

NoCall == [kind |-> "none"]
NoRet  == [kind |-> "none"]
NoGP   == [amp |-> None]
NoSplit == [prop |-> 0]
NoVariance == <<>>
NoHypers == [amp |-> None, length_scale |-> None]

(***************************************************************************)
(* The argument sets explored.  An argument that a mode never reads keeps  *)
(* its Params() default.                                                   *)
(***************************************************************************)
DefaultCycle == <<1, 5>>      \* Params().cycle
DefaultQuan  == 1000          \* Params().quan
DefaultStop  == 1             \* Params().stop = 0.1, in tenths
One          == Exp(0)        \* the hyperparameter value 1.0 (Params().amp)
DefaultRate  == 1             \* Params().rate, as a step of the unconstrained variables

\* a learning rate whose steps leave the range of the exponential
LargeRate   == Over - Under
Rates       == {DefaultRate, LargeRate}

\* numbers of features of the latent points
Dims        == 1..4

Cycles      == ((0..MaxQuery) \X (0..MaxQuery))
                   \cup {<<0 - 1, 0>>, <<0 - 1, 1>>, <<1, 0 - 1>>, <<1, 0 - 2>>}
Stops       == {5, 9}
Quans       == {0 - 1, 1, 2, MaxFull + 1}
Samps       == {"entropy", "random"}
IterArgs    == {<<n>> : n \in (0 - 1)..MaxIters}
FracSplit   == {<<7, 3>>, <<5, 5>>}
FracRepeat  == {<<5, 2>>}
FracNoRep   == {<<5>>, <<0>>, <<0 - 5>>}

\* arguments that the checks of lines 211-248 do not all accept
BadStops    == {10}
BadSamps    == {"margin"}
BadIterArgs == {<<1, n>> : n \in 0..MaxIters} \cup {<<0, 1>>, <<1, 1, 1>>}
BadSplit    == {<<10, 0>>, <<0, 10>>, <<12, 0 - 2>>, <<7, 2>>, <<7>>}
BadRepeat   == {<<0, 5>>, <<5, 0>>, <<12, 0 - 5>>, <<0 - 5, 5>>, <<7, 3>>, <<5>>}
BadNoRep    == {<<10>>, <<3, 3>>}

InitCommon ==
    /\ nfull = MaxFull
    /\ amp = One /\ length_scale = One
    /\ maxiters = None
    /\ pc = "args" /\ prop = 0 /\ i = 0 /\ fold = 0
    /\ Xpool = <<>> /\ Xtrain = <<>> /\ Xval = <<>> /\ Xtest = <<>>
    /\ kf = <<>>
    /\ call = NoCall /\ raw = <<0, 0>> /\ it = 0
    /\ OptLoss = <<>> /\ OptAmp = <<>> /\ OptLength = <<>>
    /\ Optmae = <<>> /\ Optmse = <<>> /\ Optsae = <<>> /\ gprm_dft = NoGP
    /\ ret = NoRet
    /\ training_data = <<>> /\ Optmae_val_cycle = <<>> /\ mae_test_cycle = <<>>
    /\ samp_idx = <<>> /\ OptAmp_fold = <<>> /\ Optmae_val_fold = <<>>
    /\ split0 = NoSplit /\ fits = <<>> /\ migs = <<>> /\ gp_variance = NoVariance
    /\ hyp0 = NoHypers

InitNoActive ==
    /\ noactive = TRUE /\ repeat = FALSE
    /\ samp = "entropy" /\ cycle = DefaultCycle /\ quan = DefaultQuan
    /\ stop = DefaultStop
    /\ \/ /\ nsplit = 1
          /\ fraction \in FracSplit \cup BadSplit
          /\ maxitersArg \in IterArgs \cup BadIterArgs
       \/ /\ nsplit \in 2..MaxSplit
          /\ fraction \in FracSplit
          /\ maxitersArg \in IterArgs \cup BadIterArgs

\* active learning with arguments in the sets above, at most one of them bad
InitActiveArgs(fracs, badFracs, quans) ==
    \/ /\ nsplit = 1 /\ samp \in Samps /\ cycle \in Cycles /\ stop \in Stops
       /\ quan \in quans /\ fraction \in fracs /\ maxitersArg \in IterArgs
    \/ /\ cycle = <<1, 1>> /\ quan \in quans /\ fraction \in fracs
       /\ \/ nsplit = 2 /\ samp \in Samps /\ stop \in Stops /\ maxitersArg \in IterArgs
          \/ nsplit = 1 /\ samp \in BadSamps /\ stop \in Stops /\ maxitersArg \in IterArgs
          \/ nsplit = 1 /\ samp \in Samps /\ stop \in BadStops /\ maxitersArg \in IterArgs
          \/ nsplit = 1 /\ samp \in Samps /\ stop \in Stops /\ maxitersArg \in BadIterArgs
    \/ /\ nsplit = 1 /\ samp \in Samps /\ cycle = <<1, 1>> /\ stop \in Stops
       /\ quan \in quans /\ fraction \in badFracs /\ maxitersArg \in IterArgs

InitRepeat ==
    /\ noactive = FALSE /\ repeat = TRUE
    /\ InitActiveArgs(FracRepeat, BadRepeat, {DefaultQuan})

InitNoRepeat ==
    /\ noactive = FALSE /\ repeat = FALSE
    /\ InitActiveArgs(FracNoRep, BadNoRep, Quans)

Init ==
    /\ InitCommon /\ nprops \in 1..MaxProps
    /\ \/ rate \in Rates /\ feature_ndims = 2
       \/ rate = DefaultRate /\ feature_ndims \in Dims
    /\ (InitNoActive \/ InitRepeat \/ InitNoRepeat)

(***************************************************************************)
(* gp-net.py 211-248: the argument checks.  The result is where main()     *)
(* goes next: "props" (the checks passed), "exit" (sys.exit) or            *)
(* "assert" (AssertionError).                                              *)
(***************************************************************************)
FracInRange(f) == 0 < PyAnd(f[1], f[2]) /\ PyAnd(f[1], f[2]) < 10

\* the checks without the one of the number of budgets of a train/test split
CheckNoActiveLoose ==
    IF Len(fraction) # 2 THEN "assert"
    ELSE IF fraction[1] + fraction[2] # 10 THEN "assert"
    ELSE IF ~FracInRange(fraction) THEN "exit"
    ELSE IF nsplit = 1 THEN "props"
    ELSE (IF Len(maxitersArg) = 2 THEN "props" ELSE "assert")

CheckNoActive ==
    IF Len(fraction) # 2 THEN "assert"
    ELSE IF fraction[1] + fraction[2] # 10 THEN "assert"
    ELSE IF ~FracInRange(fraction) THEN "exit"
    ELSE IF nsplit = 1
         THEN (IF Len(maxitersArg) = 1 THEN "props" ELSE "assert")
         ELSE (IF Len(maxitersArg) = 2 THEN "props" ELSE "assert")

CheckFracActive ==
    IF repeat
    THEN IF Len(fraction) # 2 THEN "assert"
         ELSE IF ~(fraction[1] + fraction[2] < 10) THEN "assert"
         ELSE IF ~FracInRange(fraction) THEN "exit"
         ELSE "props"
    ELSE IF Len(fraction) # 1 THEN "assert"
         ELSE IF ~(fraction[1] < 10) THEN "assert"
         ELSE IF quan = 0 THEN "exit"
         ELSE "props"

CheckActive ==
    IF ~(stop < 10) THEN "assert"
    ELSE IF nsplit # 1 THEN "assert"
    ELSE IF Len(maxitersArg) # 1 THEN "assert"
    ELSE IF samp \notin {"entropy", "random"} THEN "exit"
    ELSE CheckFracActive

\* maxiters = maxiters[0] is reached on these paths only (lines 221, 230)
TakesFirstBudget ==
    IF noactive
    THEN Len(fraction) = 2 /\ fraction[1] + fraction[2] = 10
         /\ FracInRange(fraction) /\ nsplit = 1 /\ Len(maxitersArg) = 1
    ELSE stop < 10 /\ nsplit = 1 /\ Len(maxitersArg) = 1

CheckArgs ==
    /\ pc = "args"
    /\ pc' = IF noactive THEN CheckNoActive ELSE CheckActive
    /\ maxiters' = IF TakesFirstBudget THEN maxitersArg[1] ELSE maxiters
    /\ UNCHANGED <<argVars, amp, length_scale, prop, i, partVars, foldVars,
                   call, loopVars, ret, cycleVars, hyp0, split0, fits, migs, gp_variance>>

(***************************************************************************)
(* gp-net.py 270: for prop in properties.                                  *)
(***************************************************************************)
NextProp ==
    /\ pc = "props"
    /\ IF prop < nprops
       THEN prop' = prop + 1 /\ pc' = "body"
       ELSE prop' = prop /\ pc' = "done"
    /\ UNCHANGED <<argVars, maxiters, amp, length_scale, i, partVars, foldVars,
                   call, loopVars, ret, cycleVars, hyp0, split0, fits, migs, gp_variance>>

(***************************************************************************)
(* gp-net.py 396-398 and 478-480: the test-adequacy assertion.             *)
(***************************************************************************)
\* the assertion with <= for <
AdequateInclusive(ytest) == query * max_query <= PyInt(stop * Len(ytest), 10)

\* the assertion without the number of cycles
AdequatePerCycle(ytest) == query < PyInt(stop * Len(ytest), 10)

Adequate(ytest) == query * max_query < PyInt(stop * Len(ytest), 10)

(***************************************************************************)
(* gp-net.py 385-398: repeat active learning up to the loop.  The split    *)
(* returned by megnet_input is not in the sources: any split of the full   *)
(* set into train, val and test, in order.                                 *)
(***************************************************************************)
RepeatSplit(ntrain, nval) ==
    [train |-> SubSeq(Iota(nfull), 1, ntrain),
     val   |-> SubSeq(Iota(nfull), ntrain + 1, ntrain + nval),
     test  |-> SubSeq(Iota(nfull), ntrain + nval + 1, nfull)]

LoadRepeat ==
    /\ pc = "body" /\ ~noactive /\ repeat
    /\ training_data' = <<>> /\ Optmae_val_cycle' = <<>> /\ mae_test_cycle' = <<>>
    /\ \E ntrain \in 1..nfull : \E nval \in 1..(nfull - ntrain) :
         LET sp == RepeatSplit(ntrain, nval) IN
           /\ Xtrain' = sp.train /\ Xval' = sp.val /\ Xtest' = sp.test
           /\ Xpool' = sp.train \o sp.val
           /\ split0' = [prop |-> prop, train |-> sp.train, val |-> sp.val,
                         test |-> sp.test]
           /\ pc' = IF Adequate(sp.test) THEN "cycle" ELSE "assert"
    /\ i' = 0
    /\ UNCHANGED <<argVars, maxiters, amp, length_scale, prop, foldVars, call,
                   loopVars, ret, samp_idx, hyp0, fits, migs, gp_variance>>

(***************************************************************************)
(* gp-net.py 456-486: no-repeat active learning up to the loop.            *)
(***************************************************************************)
val_boundary(pool) == PyInt(Len(pool) * fraction[1], 10)

\* a slicing that loses the sample at the boundary
NoRepeatSplitLossy ==
    LET pool == SliceTo(Iota(nfull), quan)
        vb   == val_boundary(pool)
    IN [pool |-> pool, test |-> SliceFrom(Iota(nfull), quan),
        train |-> SliceTo(pool, 0 - vb - 1), val |-> SliceFrom(pool, 0 - vb)]

\* a slicing that puts the sample at the boundary on both sides
NoRepeatSplitOverlap ==
    LET pool == SliceTo(Iota(nfull), quan)
        vb   == val_boundary(pool)
    IN [pool |-> pool, test |-> SliceFrom(Iota(nfull), quan),
        train |-> SliceTo(pool, 0 - vb), val |-> SliceFrom(pool, 0 - vb - 1)]

\* lines 473-476 and 482-486: pool and test cut at quan, train and val cut
\* at val_boundary from the end of the pool
NoRepeatSplit ==
    LET pool == SliceTo(Iota(nfull), quan)
        vb   == val_boundary(pool)
    IN [pool |-> pool, test |-> SliceFrom(Iota(nfull), quan),
        train |-> SliceTo(pool, 0 - vb), val |-> SliceFrom(pool, 0 - vb)]

LoadNoRepeat ==
    /\ pc = "body" /\ ~noactive /\ ~repeat
    /\ training_data' = <<>> /\ Optmae_val_cycle' = <<>> /\ mae_test_cycle' = <<>>
    /\ samp_idx' = <<>>
    /\ Xpool' = NoRepeatSplit.pool /\ Xtest' = NoRepeatSplit.test
    /\ IF Adequate(NoRepeatSplit.test)
       THEN /\ Xtrain' = NoRepeatSplit.train /\ Xval' = NoRepeatSplit.val
            /\ pc' = "cycle"
       ELSE /\ UNCHANGED <<Xtrain, Xval>>
            /\ pc' = "assert"
    /\ split0' = [prop |-> prop, train |-> Xtrain', val |-> Xval', test |-> Xtest']
    /\ i' = 0
    /\ UNCHANGED <<argVars, maxiters, amp, length_scale, prop, foldVars, call,
                   loopVars, ret, hyp0, fits, migs, gp_variance>>

(***************************************************************************)
(* Entering an adam.* function: the frame of the call.  The optimisation   *)
(* branch creates the two TransformedVariables (adam.py 434-441), whose    *)
(* unconstrained values are the logarithms of the initial values.          *)
(***************************************************************************)
Frame(kind, train, val, test, iters, a, l) ==
    [kind |-> kind, train |-> train, val |-> val, test |-> test,
     maxiters |-> iters, amp |-> a, length_scale |-> l]

\* the log entry of a fit invocation
FitRecord(c) ==
    [prop |-> prop, cycle |-> i, fold |-> fold, kind |-> c.kind,
     maxiters |-> c.maxiters]

Enter(c) ==
    /\ call' = c
    /\ raw' = IF c.maxiters > 0 THEN <<Log(c.amp), Log(c.length_scale)>> ELSE raw
    /\ it' = 0
    /\ OptLoss' = <<>> /\ OptAmp' = <<>> /\ OptLength' = <<>>
    /\ Optmae' = <<>> /\ Optmse' = <<>> /\ Optsae' = <<>>
    /\ gprm_dft' = NoGP
    /\ fits' = Append(fits, FitRecord(c))
    /\ gp_variance' = NoVariance
    /\ pc' = "adam"

\* returning from an adam.* function: its locals are gone
Leave ==
    /\ call' = NoCall
    /\ raw' = <<0, 0>> /\ it' = 0
    /\ OptLoss' = <<>> /\ OptAmp' = <<>> /\ OptLength' = <<>>
    /\ Optmae' = <<>> /\ Optmse' = <<>> /\ Optsae' = <<>>
    /\ gprm_dft' = NoGP

(***************************************************************************)
(* gp-net.py 400-418 and 517-533: the head of the active-learning loop and *)
(* the call of adam.active.  In the no-repeat variant every cycle after    *)
(* the first sets maxiters = 0 before the call.                            *)
(***************************************************************************)
\* the budget without the reset of the later cycles
CycleBudgetKept == maxiters

CycleBudget == IF ~repeat /\ i # 0 THEN 0 ELSE maxiters

\* a fit that predicts the test partition of the start of the loop
CallActiveFirstTest ==
    /\ pc = "cycle" /\ i <= max_query
    /\ maxiters' = CycleBudget
    /\ Enter(Frame("active", Xtrain, Xval, split0.test, CycleBudget, amp, length_scale))
    /\ UNCHANGED <<argVars, amp, length_scale, prop, i, partVars, foldVars, ret,
                   cycleVars, hyp0, split0, migs>>

CallActive ==
    /\ pc = "cycle" /\ i <= max_query
    /\ maxiters' = CycleBudget
    /\ Enter(Frame("active", Xtrain, Xval, Xtest, CycleBudget, amp, length_scale))
    /\ UNCHANGED <<argVars, amp, length_scale, prop, i, partVars, foldVars, ret,
                   cycleVars, hyp0, split0, migs>>

(***************************************************************************)
(* adam.py 119-137, 284-302, 459-477: one iteration of the optimisation    *)
(* loop.  The loss is evaluated at the current hyperparameters, the Adam   *)
(* step then moves the two unconstrained variables, and the trace gets the *)
(* moved values and the validation errors of the posterior built with them.*)
(* In train_test_split the validation set is the test set and the          *)
(* posterior of the iteration is kept in gprm_dft.                         *)
(***************************************************************************)
Deltas == {0 - 1, 1}

\* optimizer.apply_gradients: an Adam step moves an unconstrained variable
\* by about the learning rate, down or up; a variable outside the range of
\* the exponential stays outside
Step(r, d) ==
    IF r \in {Under, Over} THEN r
    ELSE Max2(Under, Min2(Over, r + d * rate))

ValPoints(c) == IF c.kind = "tts" THEN c.test ELSE c.val

\* the posterior is a function of the hyperparameters: an iteration that
\* comes back to earlier values finds the earlier errors
Consistent(a, l, e) ==
    \A j \in 1..Len(OptAmp) : (OptAmp[j] = a /\ OptLength[j] = l) => Optmae[j] = e

\* adam.py 61-66, 219-226, 398-405: the latent points are reshaped, and the
\* names latent_* bound, only when the points have 2 or 3 features
Reshaped == feature_ndims \in {2, 3}

\* otherwise the first use of latent_* (the prior's posterior, or the loss
\* of the first iteration) raises UnboundLocalError
Unbound ==
    /\ pc = "adam" /\ ~Reshaped
    /\ pc' = "raise"
    /\ Leave
    /\ UNCHANGED <<argVars, maxiters, amp, length_scale, prop, i, partVars,
                   foldVars, ret, cycleVars, hyp0, split0, fits, migs, gp_variance>>

\* a loop that stops at the first validation error that is not a number
ContinuesUntilNaN ==
    it < call.maxiters /\ (IF it = 0 THEN TRUE ELSE Optmae[it] # NaN)

\* a loop of one iteration more than the budget
ContinuesPastBudget == it <= call.maxiters

\* for i in tf.range(maxiters): the only condition of the loop
Continues == it < call.maxiters

\* an iteration that evaluates the loss after the step
FitIterLossAfterStep ==
    /\ pc = "adam" /\ Reshaped /\ call.maxiters > 0 /\ Continues
    /\ \E da \in Deltas, dl \in Deltas, e \in ErrVals :
         LET r  == <<Step(raw[1], da), Step(raw[2], dl)>>
             a  == Exp(r[1])
             l  == Exp(r[2])
             gp == GPRM(a, l, ValPoints(call), call.train)
         IN /\ r[1] \in AllRaws /\ r[2] \in AllRaws
            /\ Consistent(a, l, e)
            /\ OptLoss' = Append(OptLoss, LossFn(a, l, call.train))
            /\ raw' = r
            /\ OptAmp' = Append(OptAmp, a)
            /\ OptLength' = Append(OptLength, l)
            /\ Optmae' = Append(Optmae, e)
            /\ Optmse' = Append(Optmse, Metric("mse", ValPoints(call), gp))
            /\ Optsae' = Append(Optsae, Metric("sae", ValPoints(call), gp))
            /\ gprm_dft' = IF call.kind = "tts" THEN gp ELSE gprm_dft
    /\ it' = it + 1
    /\ UNCHANGED <<argVars, maxiters, amp, length_scale, pc, prop, i, partVars,
                   foldVars, call, ret, cycleVars, hyp0, split0, fits, migs, gp_variance>>

FitIter ==
    /\ pc = "adam" /\ Reshaped /\ call.maxiters > 0 /\ Continues
    /\ \E da \in Deltas, dl \in Deltas, e \in ErrVals :
         LET r  == <<Step(raw[1], da), Step(raw[2], dl)>>
             a  == Exp(r[1])
             l  == Exp(r[2])
             gp == GPRM(a, l, ValPoints(call), call.train)
         IN /\ r[1] \in AllRaws /\ r[2] \in AllRaws
            /\ Consistent(a, l, e)
            /\ OptLoss' = Append(OptLoss, LossFn(Exp(raw[1]), Exp(raw[2]), call.train))
            /\ raw' = r
            /\ OptAmp' = Append(OptAmp, a)
            /\ OptLength' = Append(OptLength, l)
            /\ Optmae' = Append(Optmae, e)
            /\ Optmse' = Append(Optmse, Metric("mse", ValPoints(call), gp))
            /\ Optsae' = Append(Optsae, Metric("sae", ValPoints(call), gp))
            /\ gprm_dft' = IF call.kind = "tts" THEN gp ELSE gprm_dft
    /\ it' = it + 1
    /\ UNCHANGED <<argVars, maxiters, amp, length_scale, pc, prop, i, partVars,
                   foldVars, call, ret, cycleVars, hyp0, split0, fits, migs, gp_variance>>

(***************************************************************************)
(* The posterior that an adam.* call predicts the test set with, and the   *)
(* hyperparameters it hands back.                                          *)
(***************************************************************************)
best == ArgMin(Optmae)

\* a posterior built from the default hyperparameters, not the caller's
OptPosteriorDefault(c) ==
    IF c.maxiters <= 0
    THEN GPRM(One, One, c.test, c.train)
    ELSE GPRM(OptAmp[best], OptLength[best], c.test, c.train)

\* adam.py 420-425 (prior), 484-488 (optimised): adam.active and adam.k_fold
OptPosterior(c) ==
    IF c.maxiters <= 0
    THEN GPRM(c.amp, c.length_scale, c.test, c.train)
    ELSE GPRM(OptAmp[best], OptLength[best], c.test, c.train)

\* adam.py 79-83 (prior), 127-131 (the one left by the last iteration)
SplitPosterior(c) ==
    IF c.maxiters <= 0
    THEN GPRM(c.amp, c.length_scale, c.test, c.train)
    ELSE gprm_dft

\* adam.py 518-545: the tuple adam.active returns; `nones` names the places
\* of the tuple that hold None
ActiveReturn(c) ==
    LET gp == OptPosterior(c) IN
    IF c.maxiters <= 0
    THEN [kind |-> "active", fit |-> Len(fits),
          nones |-> {"OptLoss", "OptAmp", "OptLength", "Optmae_val"},
          OptLoss |-> None, OptAmp |-> None, OptLength |-> None,
          amp |-> c.amp, length_scale |-> c.length_scale,
          gp_mean |-> Moment("mean", gp), gp_stddev |-> Moment("stddev", gp),
          gp_variance |-> Moment("variance", gp), Optmae_val |-> None,
          mae_test |-> Metric("mae", c.test, gp)]
    ELSE [kind |-> "active", fit |-> Len(fits), nones |-> {},
          OptLoss |-> OptLoss, OptAmp |-> OptAmp, OptLength |-> OptLength,
          amp |-> OptAmp[best], length_scale |-> OptLength[best],
          gp_mean |-> Moment("mean", gp), gp_stddev |-> Moment("stddev", gp),
          gp_variance |-> Moment("variance", gp), Optmae_val |-> PyMin(Optmae),
          mae_test |-> Metric("mae", c.test, gp)]

\* gp-net.py 415-418 and 524-536: which results main() keeps.  The
\* no-repeat variant unpacks the hyperparameters of the cycles after the
\* first into Amp and Length_Scale, which are then overwritten.
\* a driver that keeps the hyperparameters of the first cycle in both variants
KeepsHypersOfFirstCycle == i = 0

KeepsHypers == repeat \/ i = 0

ReturnActive ==
    /\ pc = "adam" /\ Reshaped /\ call.kind = "active"
    /\ call.maxiters <= 0 \/ ~Continues
    /\ ret' = ActiveReturn(call)
    /\ amp' = IF KeepsHypers THEN ret'.amp ELSE amp
    /\ length_scale' = IF KeepsHypers THEN ret'.length_scale ELSE length_scale
    /\ hyp0' = IF i = 0
               THEN [amp |-> ret'.amp, length_scale |-> ret'.length_scale]
               ELSE hyp0
    /\ pc' = "tail"
    /\ Leave
    /\ UNCHANGED <<argVars, maxiters, prop, i, partVars, foldVars,
                   cycleVars, split0, fits, migs, gp_variance>>

(***************************************************************************)
(* aux/pool_sampling.selection_fn (not in the sources; from the            *)
(* specification): EntropySelection ranks the test points by posterior     *)
(* variance, highest first, and moves the first `quota` of them from test  *)
(* to train; RandomSelection moves `quota` test points chosen at random.   *)
(* idx is the list of migrated positions of the test array; the pool is    *)
(* train plus val.  The contract covers 0 <= quota <= len(test).           *)
(***************************************************************************)
InContract(test, quota) == 0 <= quota /\ quota <= Len(test)

\* the position of the highest variance among the positions in P
\* (the first one among equals)
TopPos(variance, P) ==
    CHOOSE p \in P : \A r \in P :
        variance[p] > variance[r] \/ (variance[p] = variance[r] /\ p <= r)

RECURSIVE Ranked(_, _, _)
Ranked(variance, P, k) ==
    IF k <= 0 \/ P = {} THEN <<>>
    ELSE LET p == TopPos(variance, P)
         IN <<p>> \o Ranked(variance, P \ {p}, k - 1)

RECURSIVE Without(_, _, _)
Without(s, P, j) ==
    IF j > Len(s) THEN <<>>
    ELSE (IF j \in P THEN <<>> ELSE <<s[j]>>) \o Without(s, P, j + 1)

Migrated(train, val, test, idx) ==
    LET moved == [j \in 1..Len(idx) |-> test[idx[j]]]
        Xtr   == train \o moved
    IN [idx |-> idx, pool |-> Xtr \o val, train |-> Xtr,
        test |-> Without(test, Range(idx), 1)]

EntropySelection(train, val, test, variance, quota) ==
    Migrated(train, val, test, Ranked(variance, 1..Len(test), quota))

RECURSIVE Ascending(_, _)
Ascending(P, from) ==
    IF P = {} THEN <<>>
    ELSE LET p == CHOOSE x \in P : \A y \in P : x <= y
         IN <<p>> \o Ascending(P \ {p}, p)

RandomChoices(test, quota) ==
    {Ascending(P, 0) : P \in {Q \in SUBSET (1..Len(test)) : Cardinality(Q) = quota}}

(***************************************************************************)
(* gp-net.py 420-446 and 538-559: the rest of a cycle.  The records of the *)
(* cycle are appended; then, before the last cycle, the selector is called *)
(* with the variance returned by the fit and `query` as the quota.         *)
(***************************************************************************)
RecordsValMae == repeat \/ maxiters > 0      \* gp-net.py 422, 543-544

\* An entry of a per-cycle array is named by what it is: the output `name`
\* of the fit number ret.fit, or None where that fit returned None.
Entry(name, value) ==
    IF value = None THEN [name |-> "None", fit |-> ret.fit]
    ELSE [name |-> name, fit |-> ret.fit]

Record ==
    /\ training_data' = Append(training_data, Len(Xtrain))
    /\ mae_test_cycle' = Append(mae_test_cycle, Entry("mae_test", 0))
    /\ Optmae_val_cycle' = IF RecordsValMae
                           THEN Append(Optmae_val_cycle,
                                       Entry("Optmae_val", ret.Optmae_val))
                           ELSE Optmae_val_cycle

\* sampling after the last cycle too
SamplesInclusive == i <= max_query

Samples == i < max_query                      \* gp-net.py 433, 546

\* the two -cycle values taken for each other
QuotaSwapped == max_query

\* the Params() default in place of the parsed value
QuotaDefault == DefaultCycle[1]

Quota == query                                \* gp-net.py 438, 443, 552, 558

\* the log entry of a migration: the cycle and the number of fits so far
MigEntry == [prop |-> prop, cycle |-> i, fits |-> Len(fits)]

\* the values a variance vector (a moment of a posterior) can hold: one per
\* index point of the posterior
Values(moment) == [1..Len(moment.of.index) -> VarVals]

\* a driver that cuts the validation set anew from the returned pool
MigrateResplit(sel, v) ==
    /\ Xpool' = sel.pool /\ Xtrain' = sel.train /\ Xtest' = sel.test
    /\ Xval' = SliceTo(sel.pool, Len(Xval))
    /\ samp_idx' = IF repeat THEN samp_idx ELSE samp_idx \o sel.idx
    /\ gp_variance' = v
    /\ migs' = Append(migs, MigEntry)
    /\ i' = i + 1
    /\ pc' = "cycle"
    /\ ret' = NoRet

Migrate(sel, v) ==
    /\ Xpool' = sel.pool /\ Xtrain' = sel.train /\ Xtest' = sel.test
    /\ Xval' = Xval
    /\ samp_idx' = IF repeat THEN samp_idx ELSE samp_idx \o sel.idx
    /\ gp_variance' = v
    /\ migs' = Append(migs, MigEntry)
    /\ i' = i + 1
    /\ pc' = "cycle"
    /\ ret' = NoRet

\* the selector is called outside its contract: nothing is known of the result
OutOfContract ==
    /\ pc' = "undefined"
    /\ UNCHANGED <<partVars, samp_idx, migs, i, ret, gp_variance>>

SampleEntropy ==
    /\ pc = "tail" /\ Samples /\ samp = "entropy"
    /\ Record
    /\ IF InContract(Xtest, Quota)
       THEN \E v \in Values(ret.gp_variance) :
              Migrate(EntropySelection(Xtrain, Xval, Xtest, v, Quota), v)
       ELSE OutOfContract
    /\ UNCHANGED <<argVars, maxiters, amp, length_scale, prop, foldVars, call,
                   loopVars, hyp0, split0, fits>>

SampleRandom ==
    /\ pc = "tail" /\ Samples /\ samp = "random"
    /\ Record
    /\ IF InContract(Xtest, Quota)
       THEN \E idx \in RandomChoices(Xtest, Quota) :
              Migrate(Migrated(Xtrain, Xval, Xtest, idx), NoVariance)
       ELSE OutOfContract
    /\ UNCHANGED <<argVars, maxiters, amp, length_scale, prop, foldVars, call,
                   loopVars, hyp0, split0, fits>>

\* the last cycle (i == max_query) samples nothing
LastCycle ==
    /\ pc = "tail" /\ ~Samples
    /\ Record
    /\ i' = i + 1
    /\ pc' = "cycle"
    /\ ret' = NoRet
    /\ UNCHANGED <<argVars, maxiters, amp, length_scale, prop, partVars, foldVars,
                   call, loopVars, samp_idx, hyp0, split0, fits, migs, gp_variance>>

\* gp-net.py 400, 517: range(max_query+1) is exhausted; the next property
EndCycles ==
    /\ pc = "cycle" /\ i > max_query
    /\ pc' = "props"
    /\ UNCHANGED <<argVars, maxiters, amp, length_scale, prop, i, partVars,
                   foldVars, call, loopVars, ret, cycleVars, hyp0, split0, fits, migs, gp_variance>>

NextAL ==
    \/ CheckArgs
    \/ NextProp
    \/ LoadRepeat
    \/ LoadNoRepeat
    \/ CallActive
    \/ FitIter
    \/ ReturnActive
    \/ SampleEntropy
    \/ SampleRandom
    \/ LastCycle
    \/ EndCycles

\* one property, active learning
InitAL ==
    /\ InitCommon /\ nprops = 1 /\ rate = DefaultRate /\ feature_ndims = 2
    /\ (InitRepeat \/ InitNoRepeat)

SpecAL == InitAL /\ [][NextAL]_vars



(***************************************************************************)
(* gp-net.py 271-274: without active learning megnet_input returns the     *)
(* pool and the test set.  It is not in the sources: the pool is the first *)
(* fraction[0] of the samples, the test set the rest.                      *)
(***************************************************************************)
PoolSplit ==
    LET npool == PyInt(fraction[1] * nfull, 10)
    IN [pool |-> SliceTo(Iota(nfull), npool), test |-> SliceFrom(Iota(nfull), npool)]

LoadSplit ==
    /\ pc = "body" /\ noactive
    /\ Xpool' = PoolSplit.pool /\ Xtest' = PoolSplit.test
    /\ UNCHANGED <<Xtrain, Xval>>
    /\ pc' = IF nsplit = 1 THEN "split" ELSE IF nsplit > 1 THEN "kfold" ELSE "props"
    /\ UNCHANGED <<argVars, maxiters, amp, length_scale, prop, i, foldVars, call,
                   loopVars, ret, cycleVars, hyp0, split0, fits, migs, gp_variance>>

(***************************************************************************)
(* gp-net.py 292-300: the train/test split fit, and gp-net.py 360-368: the *)
(* final fit on the whole pool after the folds, with the second budget.    *)
(***************************************************************************)
CallSplit ==
    /\ pc = "split"
    /\ Enter(Frame("tts", Xpool, <<>>, Xtest, maxiters, amp, length_scale))
    /\ UNCHANGED <<argVars, maxiters, amp, length_scale, prop, i, partVars,
                   foldVars, ret, cycleVars, hyp0, split0, migs>>

\* a refit with the budget of the folds
CallRefitFoldBudget ==
    /\ pc = "fold" /\ fold = nsplit
    /\ Enter(Frame("tts", Xpool, <<>>, Xtest, maxitersArg[1], amp, length_scale))
    /\ UNCHANGED <<argVars, maxiters, amp, length_scale, prop, i, partVars,
                   foldVars, ret, cycleVars, hyp0, split0, migs>>

CallRefit ==
    /\ pc = "fold" /\ fold = nsplit
    /\ Enter(Frame("tts", Xpool, <<>>, Xtest, maxitersArg[2], amp, length_scale))
    /\ UNCHANGED <<argVars, maxiters, amp, length_scale, prop, i, partVars,
                   foldVars, ret, cycleVars, hyp0, split0, migs>>

\* adam.py 139-187: the tuple adam.train_test_split returns
SplitReturn(c) ==
    LET gp == SplitPosterior(c) IN
    IF c.maxiters <= 0
    THEN [kind |-> "tts", fit |-> Len(fits), nones |-> {"OptLoss"},
          OptLoss |-> None, OptAmp |-> c.amp, OptLength |-> c.length_scale,
          Optmae |-> Metric("mae", c.test, gp), Optmse |-> Metric("mse", c.test, gp),
          Optsae |-> Metric("sae", c.test, gp),
          gp_mean |-> Moment("mean", gp), gp_stddev |-> Moment("stddev", gp),
          R |-> Metric("R", c.test, gp)]
    ELSE [kind |-> "tts", fit |-> Len(fits), nones |-> {},
          OptLoss |-> OptLoss, OptAmp |-> OptAmp, OptLength |-> OptLength,
          Optmae |-> PyMin(Optmae), Optmse |-> Optmse[best], Optsae |-> Optsae[best],
          gp_mean |-> Moment("mean", gp), gp_stddev |-> Moment("stddev", gp),
          R |-> Metric("R", c.test, gp)]

ReturnSplit ==
    /\ pc = "adam" /\ Reshaped /\ call.kind = "tts"
    /\ call.maxiters <= 0 \/ ~Continues
    /\ ret' = SplitReturn(call)
    /\ pc' = "plot"
    /\ Leave
    /\ UNCHANGED <<argVars, maxiters, amp, length_scale, prop, i, partVars,
                   foldVars, cycleVars, hyp0, split0, fits, migs, gp_variance>>

\* gp-net.py 297-300, 365-368: the plots; then the next property
PlotSplit ==
    /\ pc = "plot"
    /\ pc' = "props"
    /\ ret' = NoRet
    /\ UNCHANGED <<argVars, maxiters, amp, length_scale, prop, i, partVars,
                   foldVars, call, loopVars, cycleVars, hyp0, split0, fits, migs,
                   gp_variance>>

(***************************************************************************)
(* gp-net.py 308-317: KFold(n_splits=nsplit, shuffle=True,                 *)
(* random_state=0).split(Xpool).  Of n samples the first n mod k folds     *)
(* validate on n div k + 1 of them, the others on n div k; the shuffle     *)
(* decides which, and each index list comes back in ascending order.       *)
(* More folds than samples is a ValueError.                                *)
(***************************************************************************)
FoldSize(n, k, f) == IF f <= n % k THEN n \div k + 1 ELSE n \div k

Pick(s, P) == Without(s, (1..Len(s)) \ P, 1)

\* the ways of giving each of the positions 1..n to one of k folds, with
\* the fold sizes of KFold
Shuffles(n, k) ==
    {g \in [1..n -> 1..k] :
        \A f \in 1..k : Cardinality({p \in 1..n : g[p] = f}) = FoldSize(n, k, f)}

\* folds that train on the whole pool
FoldsOverlap(X, k, g) ==
    [f \in 1..k |->
        [train |-> X,
         val   |-> Pick(X, {p \in 1..Len(X) : g[p] = f})]]

Folds(X, k, g) ==
    [f \in 1..k |->
        [train |-> Pick(X, {p \in 1..Len(X) : g[p] # f}),
         val   |-> Pick(X, {p \in 1..Len(X) : g[p] = f})]]

KFoldSplit ==
    /\ pc = "kfold"
    /\ OptAmp_fold' = <<>> /\ Optmae_val_fold' = <<>>
    /\ fold' = 0
    /\ IF nsplit > Len(Xpool)
       THEN kf' = <<>> /\ pc' = "raise"
       ELSE /\ \E g \in Shuffles(Len(Xpool), nsplit) : kf' = Folds(Xpool, nsplit, g)
            /\ pc' = "fold"
    /\ UNCHANGED <<argVars, maxiters, amp, length_scale, prop, i, partVars, call,
                   loopVars, ret, cycleVars, hyp0, split0, fits, migs, gp_variance>>

\* gp-net.py 314-332: the fit of a fold, with the first budget
CallFold ==
    /\ pc = "fold" /\ fold < nsplit
    /\ Xtrain' = kf[fold + 1].train /\ Xval' = kf[fold + 1].val
    /\ Enter(Frame("k_fold", kf[fold + 1].train, kf[fold + 1].val, Xtest,
                   maxitersArg[1], amp, length_scale))
    /\ UNCHANGED <<argVars, maxiters, amp, length_scale, prop, i, Xpool, Xtest,
                   foldVars, ret, cycleVars, hyp0, split0, migs>>

\* adam.py 315-352: the tuple adam.k_fold returns
FoldReturn(c) ==
    LET gp == OptPosterior(c) IN
    IF c.maxiters <= 0
    THEN [kind |-> "k_fold", fit |-> Len(fits),
          nones |-> {"Optmae_val", "Optmse_val"},
          amp |-> c.amp, length_scale |-> c.length_scale,
          Optmae_val |-> None, Optmse_val |-> None,
          mae_test |-> Metric("mae", c.test, gp)]
    ELSE [kind |-> "k_fold", fit |-> Len(fits), nones |-> {},
          amp |-> OptAmp[best], length_scale |-> OptLength[best],
          Optmae_val |-> NpMin(Optmae), Optmse_val |-> Optmse[best],
          mae_test |-> Metric("mae", c.test, gp)]

\* gp-net.py 330: main() unpacks the hyperparameters into amp, length_scale
\* a driver that does not unpack the hyperparameters a fold returns
ReturnFoldKeepsPriors ==
    /\ pc = "adam" /\ Reshaped /\ call.kind = "k_fold"
    /\ call.maxiters <= 0 \/ ~Continues
    /\ ret' = FoldReturn(call)
    /\ pc' = "fold_tail"
    /\ Leave
    /\ UNCHANGED <<argVars, maxiters, amp, length_scale, prop, i, partVars,
                   foldVars, cycleVars, hyp0, split0, fits, migs, gp_variance>>

ReturnFold ==
    /\ pc = "adam" /\ Reshaped /\ call.kind = "k_fold"
    /\ call.maxiters <= 0 \/ ~Continues
    /\ ret' = FoldReturn(call)
    /\ amp' = ret'.amp
    /\ length_scale' = ret'.length_scale
    /\ pc' = "fold_tail"
    /\ Leave
    /\ UNCHANGED <<argVars, maxiters, prop, i, partVars, foldVars, cycleVars,
                   hyp0, split0, fits, migs, gp_variance>>

\* gp-net.py 333-337: the records of the fold
FoldTail ==
    /\ pc = "fold_tail"
    /\ OptAmp_fold' = Append(OptAmp_fold, Entry("amp", ret.amp))
    /\ Optmae_val_fold' = Append(Optmae_val_fold, Entry("Optmae_val", ret.Optmae_val))
    /\ fold' = fold + 1
    /\ pc' = "fold"
    /\ ret' = NoRet
    /\ UNCHANGED <<argVars, maxiters, amp, length_scale, prop, i, partVars, kf,
                   call, loopVars, cycleVars, hyp0, split0, fits, migs, gp_variance>>

Next ==
    \/ CheckArgs
    \/ NextProp
    \/ LoadRepeat
    \/ LoadNoRepeat
    \/ CallActive
    \/ FitIter
    \/ ReturnActive
    \/ SampleEntropy
    \/ SampleRandom
    \/ LastCycle
    \/ EndCycles
    \/ LoadSplit
    \/ CallSplit
    \/ CallRefit
    \/ ReturnSplit
    \/ PlotSplit
    \/ KFoldSplit
    \/ CallFold
    \/ ReturnFold
    \/ FoldTail
    \/ Unbound

Spec == Init /\ [][Next]_vars

\* one property of interest, in any of the modes
InitOne ==
    /\ InitCommon /\ nprops = 1 /\ rate = DefaultRate /\ feature_ndims \in {2, 4}
    /\ (InitNoActive \/ InitRepeat \/ InitNoRepeat)

SpecOne == InitOne /\ [][Next]_vars

(***************************************************************************)
(* Properties of the active-learning driver.                               *)
(***************************************************************************)
\* the partitions of the current property exist: its loop has been entered
Running ==
    /\ ~noactive
    /\ \/ pc \in {"cycle", "adam", "tail", "undefined"}
       \/ pc \in {"props", "done"} /\ prop >= 1

Finished == ~noactive /\ pc \in {"props", "done"} /\ prop >= 1

FitsOf(p) == {j \in 1..Len(fits) : fits[j].prop = p}
MigsOf(p) == {k \in 1..Len(migs) : migs[k].prop = p}

\* C1: in an active-learning run, at every cycle and before and after every
\* migration, len(train) + len(val) + len(test) is the size of the full set
\* that was split at loop start.
C1_SumConstant ==
    Running => Len(Xtrain) + Len(Xval) + Len(Xtest) = nfull

C1_Witness ==
    /\ Running /\ pc = "cycle" /\ i >= 1 /\ query >= 1
    /\ Len(Xtrain) > Len(split0.train)

\* C2: in every state of an active-learning run, train, val and test are
\* pairwise disjoint and their union is the full index space.
C2_Partition ==
    Running =>
        LET all == Xtrain \o Xval \o Xtest
        IN /\ \A j, k \in 1..Len(all) : all[j] = all[k] => j = k
           /\ Range(all) = 1..nfull

C2_Witness ==
    /\ Running /\ pc = "adam" /\ i >= 1 /\ query >= 1
    /\ Xtrain # <<>> /\ Xval # <<>> /\ Xtest # <<>>
    /\ Range(Xtest) # Range(split0.test)

\* C3: the entropy policy, given the posterior variance over the current
\* test partition and a quota q <= len(test), moves exactly the q test
\* points of highest variance from test to train.
EntropyStep == pc = "tail" /\ pc' = "cycle" /\ samp = "entropy" /\ i < max_query

EntropyPost ==
    /\ gp_variance' \in Values(ret.gp_variance)
    /\ Len(gp_variance') = Len(Xtest)
    /\ Len(Xtest') = Len(Xtest) - query
    /\ Len(Xtrain') = Len(Xtrain) + query
    /\ Range(Xtest') \subseteq Range(Xtest)
    /\ Range(Xtrain') = Range(Xtrain) \cup (Range(Xtest) \ Range(Xtest'))
    /\ Xval' = Xval
    /\ \A p, r \in 1..Len(Xtest) :
         (Xtest[p] \notin Range(Xtest') /\ Xtest[r] \in Range(Xtest'))
            => gp_variance'[p] >= gp_variance'[r]

C4_ZeroQuotaNoOp ==
    (Running /\ query = 0) =>
        /\ Xtrain = split0.train /\ Xval = split0.val /\ Xtest = split0.test
        /\ pc = "adam" =>
             /\ call.train = split0.train
             /\ call.val = split0.val
             /\ call.test = split0.test

C4_Witness ==
    /\ Running /\ query = 0 /\ pc = "adam" /\ i >= 1
    /\ MigsOf(prop) # {}

\* C5: with max_cycles = N >= 0 the driver performs exactly N+1 fits
\* (cycles 0..N) and exactly N migrations, each migration after the fit of
\* its cycle, none after the fit of cycle N.
C5_CycleCounts ==
    (~noactive /\ max_query >= 0) =>
        /\ \A p \in 1..prop :
             (p < prop \/ pc \in {"props", "done"}) =>
                 /\ Cardinality(FitsOf(p)) = max_query + 1
                 /\ Cardinality(MigsOf(p)) = max_query
        /\ \A j \in 1..Len(fits) :
             fits[j].cycle = Cardinality({k \in FitsOf(fits[j].prop) : k < j})
        /\ \A k \in 1..Len(migs) :
             /\ migs[k].cycle < max_query
             /\ migs[k].fits >= 1
             /\ fits[migs[k].fits].prop = migs[k].prop
             /\ fits[migs[k].fits].cycle = migs[k].cycle
             /\ \A n \in 1..Len(migs) : migs[n].fits = migs[k].fits => n = k

C5_Witness ==
    /\ Finished /\ max_query = 2
    /\ Cardinality(FitsOf(prop)) = 3 /\ Cardinality(MigsOf(prop)) = 2

\* C6: the first fit of an active-learning loop runs only if
\* quota * max_cycles < stop_fraction * len(test) holds for the test
\* partition at loop start, and the loop never fails the check once begun.
C6_AdequacyBeforeFirstFit ==
    ~noactive =>
        /\ FitsOf(prop) # {} =>
             10 * query * max_query < stop * Len(split0.test)
        /\ pc = "assert" => FitsOf(prop) = {}

C6_Witness ==
    /\ ~noactive /\ pc = "adam" /\ i = 0 /\ query * max_query > 0

\* C7: when the adequacy check passed and every migration moves exactly
\* quota points (so quota >= 0), the test partition is non-empty at the fit
\* of every cycle, the last included.
C7_TestNonEmpty ==
    (pc = "adam" /\ call.kind = "active" /\ query >= 0) => Len(call.test) > 0

C7_Witness ==
    /\ pc = "adam" /\ call.kind = "active" /\ i = max_query /\ i >= 1
    /\ query >= 1 /\ Len(call.test) < Len(split0.test)

\* C8: after the final cycle the test partition still holds at least
\* stop * (test size at loop start) points.
C8_StopFractionRemains ==
    (Finished /\ query >= 0 /\ max_query >= 0) =>
        10 * Len(Xtest) >= stop * Len(split0.test)

\* C9: in no-repeat active learning only cycle 0 optimises; every later
\* cycle calls the fit with max_iters = 0 and the hyperparameters returned
\* by cycle 0.
C9_OptimiseOnce ==
    (~noactive /\ ~repeat /\ pc = "adam" /\ i >= 1) =>
        /\ call.maxiters = 0
        /\ call.amp = hyp0.amp
        /\ call.length_scale = hyp0.length_scale

C9_Witness ==
    /\ ~noactive /\ ~repeat /\ pc = "adam" /\ i >= 1
    /\ hyp0.amp # One /\ hyp0.length_scale # One
    /\ Len(call.train) > Len(split0.train)


(***************************************************************************)
(* Properties of the fits.                                                 *)
(***************************************************************************)
\* an adam.* call returns after an optimisation
OptimisedReturn ==
    pc = "adam" /\ pc' \notin {"adam", "raise"} /\ call.maxiters > 0

\* the posterior that the returned predictions and test diagnostics are of
Predicted(r) == IF r.kind = "k_fold" THEN r.mae_test.of ELSE r.gp_mean.of

\* the first iteration whose validation MAE is the smallest of the trace
FirstMin(s) ==
    CHOOSE j \in 1..Len(s) :
        /\ \A k \in 1..Len(s) : s[j] <= s[k]
        /\ \A k \in 1..(j - 1) : s[k] > s[j]

NoNaN(s) == \A j \in 1..Len(s) : s[j] # NaN

\* C10: for every fit with max_iters > 0, in each of the three protocols,
\* the best iterate is the first iteration of minimal validation MAE, and
\* the posterior returned (and the diagnostics derived from it) is the one
\* computed on the test set with that iterate's amplitude and length-scale,
\* not with the last iterate's.  (Stated for traces without NaN.)
C10_BestIteratePosterior ==
    [][(OptimisedReturn /\ NoNaN(Optmae)) =>
          /\ Predicted(ret').amp = OptAmp[FirstMin(Optmae)]
          /\ Predicted(ret').length = OptLength[FirstMin(Optmae)]
          /\ Predicted(ret').index = call.test
          /\ Predicted(ret').obs = call.train]_vars


\* an adam.* call with max_iters <= 0, on latent points of the two or three
\* dimensions the function reshapes, is in progress
PriorCall == pc = "adam" /\ Reshaped /\ call.maxiters <= 0

\* the hyperparameters in the tuple returned: adam.train_test_split returns
\* them in the places of the amplitude and length-scale traces
HypersOf(r) ==
    IF r.kind = "tts" THEN <<r.OptAmp, r.OptLength>> ELSE <<r.amp, r.length_scale>>

\* the place of the best validation MAE in the tuple returned
BestValMae(r) == IF r.kind = "tts" THEN "Optmae" ELSE "Optmae_val"

\* the places of the traces in the tuple returned: adam.k_fold returns none
Traces(r) ==
    CASE r.kind = "active" -> {"OptLoss", "OptAmp", "OptLength"}
      [] r.kind = "tts" -> {"OptLoss"}
      [] r.kind = "k_fold" -> {}

\* the first step of a call with max_iters <= 0 is its return, a normal one,
\* of a posterior built once from the caller's hyperparameters, with no loss
\* trace and the caller's hyperparameters unchanged
PriorReturn ==
    /\ pc' \in {"tail", "plot", "fold_tail"}
    /\ it = 0 /\ OptLoss = <<>> /\ OptAmp = <<>> /\ Optmae = <<>>
    /\ Traces(ret') \subseteq ret'.nones
    /\ HypersOf(ret') = <<call.amp, call.length_scale>>
    /\ Predicted(ret') = GPRM(call.amp, call.length_scale, call.test, call.train)

\* C11 as stated: a fit with max_iters <= 0 takes no optimizer step,
\* evaluates one posterior with the caller's amplitude and length-scale,
\* returns these unchanged and returns no trace: the trace outputs and the
\* best validation MAE are absent, in every protocol.
C11_PriorFitNoValMae ==
    [][PriorCall => (PriorReturn /\ BestValMae(ret') \in ret'.nones)]_vars

\* C11 amended: as above, but the best validation MAE is absent from what
\* adam.k_fold and adam.active return only; adam.train_test_split returns,
\* in the places of the best MAE, MSE and SAE, the errors on the test set of
\* the posterior built from the caller's hyperparameters.
C11_PriorFit ==
    [][PriorCall =>
         /\ PriorReturn
         /\ ret'.kind # "tts" => BestValMae(ret') \in ret'.nones
         /\ ret'.kind = "tts" =>
              /\ BestValMae(ret') \notin ret'.nones
              /\ ret'.Optmae = Metric("mae", call.test, Predicted(ret'))
              /\ ret'.Optmse = Metric("mse", call.test, Predicted(ret'))
              /\ ret'.Optsae = Metric("sae", call.test, Predicted(ret'))]_vars

\* a train/test-split fit with max_iters <= 0 has returned hyperparameters
\* that are not the defaults
C11_Witness ==
    /\ pc = "plot" /\ ret.kind = "tts" /\ "OptLoss" \in ret.nones
    /\ ret.OptAmp # One /\ ret.gp_mean.of.amp = ret.OptAmp


\* an adam.* call with max_iters > 0, on latent points of the two or three
\* dimensions the function reshapes, is in progress
OptimisingCall == pc = "adam" /\ Reshaped /\ call.maxiters > 0

\* the six traces of the optimisation loop
Traces6 == <<OptLoss, OptAmp, OptLength, Optmae, Optmse, Optsae>>

\* sequence t has become u by appending one entry
Appended(t, u) == Len(u) = Len(t) + 1 /\ SubSeq(u, 1, Len(t)) = t

\* C12: a fit with max_iters = n > 0 takes exactly n optimizer steps, each
\* appending one entry to each of the six traces (loss, amplitude,
\* length-scale, validation MAE, MSE, SAE), and returns only after the n-th:
\* at the return every trace has n entries, in iteration order, and the
\* traces returned are these, whatever the errors were (NaN included).
C12_TraceLengths ==
    [][OptimisingCall =>
         /\ \A k \in 1..6 : Len(Traces6[k]) = it
         /\ IF pc' = "adam"
            THEN /\ it' = it + 1 /\ it' <= call.maxiters
                 /\ \A k \in 1..6 : Appended(Traces6[k], Traces6[k]')
            ELSE /\ it = call.maxiters
                 /\ ret'.kind \in {"active", "tts"} =>
                      /\ ret'.OptLoss = OptLoss
                      /\ ret'.OptAmp = OptAmp
                      /\ ret'.OptLength = OptLength]_vars

\* the last iteration of a fit whose first validation MAE was NaN and whose
\* later ones did not improve on the one before
C12_Witness ==
    /\ OptimisingCall /\ call.maxiters = MaxIters /\ it = call.maxiters
    /\ Optmae[1] = NaN /\ Optmae[it] = 2 /\ Optmae[it - 1] # 2 /\ Len(Optsae) = MaxIters


\* C13: during an optimising fit the amplitude and the length-scale recorded
\* at every iteration are strictly positive, whatever the sign and the size
\* of the steps applied to the unconstrained variables.
C13_StrictlyPositive ==
    OptimisingCall =>
        \A j \in 1..Len(OptAmp) : OptAmp[j] > 0 /\ OptLength[j] > 0


\* C14: a fit call (points and targets being of equal length) signals an
\* error if and only if the number of features of the latent points is not
\* 1, 2 or 3, and does so before any optimisation step.
C14_DimsAccepted ==
    [][pc = "adam" =>
         /\ pc' = "raise" <=> feature_ndims \notin {1, 2, 3}
         /\ pc' = "raise" => it = 0]_vars


(***************************************************************************)
(* Properties of the argument checks.                                      *)
(***************************************************************************)
\* main() has not come past the argument checks
AtChecks == pc \in {"args", "exit"} \/ (pc = "assert" /\ prop = 0)

\* nothing has been loaded and no fit has run
NothingDone ==
    /\ fits = <<>> /\ migs = <<>> /\ split0 = NoSplit
    /\ Xpool = <<>> /\ Xtrain = <<>> /\ Xval = <<>> /\ Xtest = <<>>
    /\ call = NoCall /\ ret = NoRet

\* the number of iteration budgets the mode requires
BudgetsRequired == IF noactive /\ nsplit > 1 THEN 2 ELSE 1

\* C15: the number of iteration budgets is checked before any data is
\* loaded or any fit runs: 2 are required with folds > 1, 1 with folds = 1
\* and in active learning, and main() goes past the checks with no other
\* number; the fits of the folds are called with the first budget and the
\* final fit on the whole pool with the second.
C15_BudgetCount ==
    /\ AtChecks => NothingDone
    /\ (nsplit >= 1 /\ Len(maxitersArg) # BudgetsRequired) => AtChecks /\ pc # "props"
    /\ \A k \in 1..Len(fits) :
         /\ fits[k].kind = "k_fold" => fits[k].maxiters = maxitersArg[1]
         /\ (fits[k].kind = "tts" /\ nsplit > 1) => fits[k].maxiters = maxitersArg[2]
         /\ (fits[k].kind = "tts" /\ nsplit = 1) => fits[k].maxiters = maxitersArg[1]
         /\ (fits[k].kind = "active" /\ fits[k].cycle = 0) =>
               fits[k].maxiters = maxitersArg[1]

\* the final fit of a k-fold run, with a second budget unlike the first
C15_Witness ==
    /\ pc = "adam" /\ call.kind = "tts" /\ nsplit > 1 /\ fold = nsplit
    /\ call.maxiters = maxitersArg[2] /\ maxitersArg[2] # maxitersArg[1]
    /\ Len(OptAmp_fold) = nsplit


\* every fraction of -frac lies in the open interval (0, 1)
FracsInside == \A k \in 1..Len(fraction) : 0 < fraction[k] /\ fraction[k] < 10

\* the number and the total of the fractions that the mode requires
FracTotal ==
    IF noactive THEN Len(fraction) = 2 /\ fraction[1] + fraction[2] = 10
    ELSE IF repeat THEN Len(fraction) = 2 /\ fraction[1] + fraction[2] < 10
    ELSE Len(fraction) = 1

\* C16: in every mode a -frac with a fraction outside (0, 1), or not of the
\* total the mode requires, is rejected before any data is loaded or any fit
\* runs: main() does not go past the argument checks with it.
C16_FracRejected ==
    ~(FracsInside /\ FracTotal) => (AtChecks /\ pc # "props" /\ NothingDone)


\* the test-adequacy assertion of the current property has failed
Rejected == pc = "assert" /\ prop >= 1

\* C17: when the invocation is rejected because its quota, cycles and stop
\* fraction would exhaust the test partition, no fit and no migration has
\* happened for any property of the invocation, the earlier ones included.
C17_NoPartialExecution == Rejected => (fits = <<>> /\ migs = <<>>)


(***************************************************************************)
(* Properties of a run over several properties of interest.                *)
(***************************************************************************)
\* the first fit of the current property is in progress
FirstFit == pc = "adam" /\ Cardinality(FitsOf(prop)) = 1

\* C18: the first fit of every property is called with the amplitude, the
\* length-scale and the iteration budget that the caller supplied, whatever
\* the fits of the properties before it returned.
C18_IndependentProperties ==
    FirstFit =>
        /\ call.amp = One /\ call.length_scale = One
        /\ call.maxiters = maxitersArg[1]


(***************************************************************************)
(* Properties of the k-fold cross-validation.                              *)
(***************************************************************************)
\* kf.split(Xpool) has been called for the current property
KFoldDone == noactive /\ nsplit > 1 /\ prop >= 1 /\ pc \notin {"body", "kfold"}

NoRepeats(s) == Cardinality(Range(s)) = Len(s)

\* kf is k folds, each a split of the pool into train and val, whose
\* validation sets are pairwise disjoint and cover the pool
FoldsPartition ==
    /\ Len(kf) = nsplit
    /\ \A f \in 1..Len(kf) :
         /\ NoRepeats(kf[f].train) /\ NoRepeats(kf[f].val)
         /\ Range(kf[f].train) \cap Range(kf[f].val) = {}
         /\ Range(kf[f].train) \cup Range(kf[f].val) = Range(Xpool)
    /\ \A f, g \in 1..Len(kf) :
         f # g => Range(kf[f].val) \cap Range(kf[g].val) = {}
    /\ UNION {Range(kf[f].val) : f \in 1..Len(kf)} = Range(Xpool)

\* C19 as stated: k-fold cross-validation with nsplit = k > 1 on a pool gives
\* exactly k folds; in each the train and val index sets are disjoint and
\* together the pool; the k val sets are pairwise disjoint and cover the pool.
C19_FoldsPartitionAnyPool == KFoldDone => FoldsPartition

\* C19 amended: so it is when the pool has at least k samples; with fewer
\* the split raises an error and there is no fold and no fit.
C19_FoldsPartition ==
    KFoldDone =>
        IF nsplit <= Len(Xpool) THEN FoldsPartition
        ELSE kf = <<>> /\ pc = "raise" /\ FitsOf(prop) = {}

\* a fold of a pool that does not divide evenly is being fitted
C19_Witness ==
    /\ KFoldDone /\ pc = "adam" /\ call.kind = "k_fold" /\ fold = 1
    /\ Len(Xpool) % nsplit # 0
    /\ call.val = kf[2].val /\ Len(kf[1].val) > Len(kf[2].val)

\* the per-cycle sequences of an active-learning run (gp-net.py 421-425,
\* 539-544); mae_test_cycle stands for the three test-error sequences, which
\* are appended by adjacent statements of the same form
CycleSeqs == <<training_data, Optmae_val_cycle, mae_test_cycle>>

CycleDone == ~noactive /\ pc = "tail" /\ i' = i + 1

\* C20: in every active-learning run a cycle record is appended in every
\* cycle and never changed afterwards: when cycle i completes, each per-cycle
\* sequence (training-set size, best validation MAE, test errors) has exactly
\* i + 1 entries, the first i of which are the entries it had after cycle
\* i - 1, and between two cycles of a property no sequence changes.
C20_CycleRecords ==
    [][/\ CycleDone =>
            /\ Len(training_data') = i + 1
            /\ Appended(training_data, training_data')
            /\ Len(Optmae_val_cycle') = i + 1
            /\ Appended(Optmae_val_cycle, Optmae_val_cycle')
            /\ Len(mae_test_cycle') = i + 1
            /\ Appended(mae_test_cycle, mae_test_cycle')
       /\ (~noactive /\ pc \in {"cycle", "adam"} /\ pc' # "props" /\ i > 0) =>
            CycleSeqs' = CycleSeqs]_vars

\* the same for the sequences other than the best validation MAE
C20_SizeAndTestRecords ==
    [][CycleDone =>
            /\ Len(training_data') = i + 1
            /\ Appended(training_data, training_data')
            /\ Len(mae_test_cycle') = i + 1
            /\ Appended(mae_test_cycle, mae_test_cycle')]_vars

\* repeat mode appends the best validation MAE in every cycle
C20_RepeatRecords ==
    [][(CycleDone /\ repeat) =>
            /\ Len(Optmae_val_cycle') = i + 1
            /\ Appended(Optmae_val_cycle, Optmae_val_cycle')]_vars

\* a no-repeat run has completed its second cycle
C20_SecondCycleNoRepeat ==
    ~noactive /\ ~repeat /\ pc = "cycle" /\ i = 2 /\ Len(training_data) = 2


(***************************************************************************)
(* Termination.  main() is one sequential process: whenever it has a next  *)
(* step it takes it.                                                       *)
(***************************************************************************)
SpecALFair == InitAL /\ [][NextAL]_vars /\ WF_vars(NextAL)

\* the loop of a property is entered (the adequacy assertion has passed)
\* with a quota that the selector's contract covers
LoopEntered == ~noactive /\ pc = "cycle" /\ i = 0 /\ fits = <<>> /\ query >= 0

\* the loop is over: one fit and one record per cycle 0..max_query, the last
\* record being of the last fit
Terminal ==
    /\ Finished
    /\ max_query >= 0 =>
         /\ Cardinality(FitsOf(prop)) = max_query + 1
         /\ Len(training_data) = max_query + 1
         /\ Len(mae_test_cycle) = max_query + 1
         /\ mae_test_cycle[max_query + 1].fit = Len(fits)

FitSeq == SelectSeq(fits, LAMBDA f : f.prop = prop)

\* k-fold mode, the folds of the current property made
KFoldRunning ==
    /\ noactive /\ nsplit > 1 /\ kf # <<>>
    /\ pc \in {"fold", "adam", "fold_tail", "plot", "props", "done", "raise"}

\* C22: in k-fold mode with nsplit = k, exactly k per-fold fits (train =
\* fold-train, val = fold-val) run first, each with the first budget, and
\* exactly one refit on the whole pool (evaluated on test) runs after all k
\* fold fits have returned and been recorded, with the second budget.
C22_FoldsThenRefit ==
    KFoldRunning =>
        /\ Len(FitSeq) <= nsplit + 1
        /\ \A j \in 1..Len(FitSeq) :
             IF j <= nsplit
             THEN /\ FitSeq[j].kind = "k_fold" /\ FitSeq[j].fold = j - 1
                  /\ FitSeq[j].maxiters = maxitersArg[1]
             ELSE /\ FitSeq[j].kind = "tts"
                  /\ FitSeq[j].maxiters = maxitersArg[2]
        /\ (pc = "adam" /\ call.kind = "k_fold") =>
             /\ Len(FitSeq) = fold + 1 /\ Len(Optmae_val_fold) = fold
             /\ call.train = kf[fold + 1].train /\ call.val = kf[fold + 1].val
             /\ call.test = Xtest /\ call.maxiters = maxitersArg[1]
        /\ (pc = "adam" /\ call.kind = "tts") =>
             /\ Len(FitSeq) = nsplit + 1 /\ Len(Optmae_val_fold) = nsplit
             /\ call.train = Xpool /\ call.test = Xtest
             /\ call.maxiters = maxitersArg[2]
        /\ pc \in {"plot", "props", "done"} => Len(FitSeq) = nsplit + 1

\* the refit after MaxSplit folds, with a budget other than theirs
C22_Witness ==
    /\ KFoldRunning /\ pc = "adam" /\ call.kind = "tts" /\ nsplit = MaxSplit
    /\ maxitersArg[2] > maxitersArg[1] /\ it = 2


(***************************************************************************)
(* Properties of the best iterate.                                         *)
(***************************************************************************)
\* the tuple r returned by an optimising fit is that of iteration j of the
\* trace: its best validation MAE and what is returned with it
OfIteration(r, j) ==
    /\ r[BestValMae(r)] = Optmae[j]
    /\ r.kind \in {"active", "k_fold"} =>
         r.amp = OptAmp[j] /\ r.length_scale = OptLength[j]
    /\ r.kind = "k_fold" => r.Optmse_val = Optmse[j]
    /\ r.kind = "tts" => r.Optmse = Optmse[j] /\ r.Optsae = Optsae[j]

\* C23: in every optimising fit the best validation MAE returned is the
\* validation MAE of the iteration whose amplitude and length-scale are
\* returned as the best hyperparameters (and, in the train/test split, whose
\* MSE and SAE are returned), for every trace, NaN errors included.
C23_BestMaeOfBestIterate ==
    [][OptimisedReturn => \E j \in 1..Len(Optmae) : OfIteration(ret', j)]_vars

\* the same for the traces without NaN, and for every trace of adam.k_fold
C23_BestMaeWithoutNaN ==
    [][(OptimisedReturn /\ (NoNaN(Optmae) \/ call.kind = "k_fold")) =>
          \E j \in 1..Len(Optmae) : OfIteration(ret', j)]_vars


(***************************************************************************)
(* Properties of the trace of an optimising fit.                           *)
(***************************************************************************)
\* the hyperparameters before iteration j: the caller's before the first
HypersBefore(j) ==
    IF j = 1 THEN <<call.amp, call.length_scale>>
    ELSE <<OptAmp[j - 1], OptLength[j - 1]>>

\* C24: in the trace of an optimising fit, entry j's amplitude,
\* length-scale and validation errors are those of the hyperparameters
\* after the j-th update step, while entry j's loss is the negative log
\* marginal likelihood of the training targets at the hyperparameters
\* before that step (entry j-1's, the caller's for the first); there are as
\* many losses as steps, so none is recorded for the final hyperparameters.
C24_LossBeforeStep ==
    OptimisingCall =>
        /\ Len(OptLoss) = it /\ Len(OptAmp) = it
        /\ it > 0 => <<OptAmp[it], OptLength[it]>> = <<Exp(raw[1]), Exp(raw[2])>>
        /\ \A j \in 1..it :
             /\ OptLoss[j] = LossFn(HypersBefore(j)[1], HypersBefore(j)[2], call.train)
             /\ Optmse[j] = Metric("mse", ValPoints(call),
                                   GPRM(OptAmp[j], OptLength[j], ValPoints(call),
                                        call.train))
             /\ Optsae[j].of = Optmse[j].of
             /\ \A k \in 1..it :
                  <<OptAmp[k], OptLength[k]>> = <<OptAmp[j], OptLength[j]>>
                      => Optmae[k] = Optmae[j]

\* after two steps of a fit in active learning, each of which changed the
\* amplitude
C24_Witness ==
    /\ OptimisingCall /\ call.kind = "active" /\ it = 2
    /\ OptAmp[1] # call.amp /\ OptAmp[2] # OptAmp[1]
    /\ OptLoss[2].amp = OptAmp[1] /\ OptLoss[1].amp = call.amp


(***************************************************************************)
(* Properties of what the driver passes to the selector and to the fits.   *)
(***************************************************************************)
\* the driver is about to call the selector of cycle i
SelectorCall == ~noactive /\ pc = "tail" /\ Samples

\* C25: whenever the driver calls the selector in cycle i, the variance it
\* passes is that of the posterior of the fit of the same cycle i over the
\* test partition it passes in the same call: one entry per test point, in
\* the order of the test points, conditioned on the training partition
\* passed with it.
C25_VarianceOfSameCycle ==
    SelectorCall =>
        /\ ret.kind = "active" /\ ret.fit = Len(fits)
        /\ fits[ret.fit].prop = prop /\ fits[ret.fit].cycle = i
        /\ ret.gp_variance.moment = "variance"
        /\ ret.gp_variance.of.index = Xtest
        /\ ret.gp_variance.of.obs = Xtrain
        /\ \A v \in Values(ret.gp_variance) : Len(v) = Len(Xtest)

\* the selector call of a later cycle, after a migration has made the test
\* partition smaller
C25_Witness ==
    /\ SelectorCall /\ samp = "entropy" /\ i >= 1 /\ query >= 1
    /\ Len(Xtest) < Len(split0.test)
    /\ Len(ret.gp_variance.of.index) = Len(Xtest)

\* C26: the active-learning driver never changes the validation partition:
\* in the repeat and in the no-repeat variant the validation points passed
\* to the fit of every cycle 0..max_query are exactly those of the initial
\* split; a migration changes train, test and the pool only.
C26_ValidationFixed ==
    /\ Running => Xval = split0.val
    /\ (~noactive /\ pc = "adam") =>
         /\ call.kind = "active" /\ call.val = split0.val
         /\ Xpool = call.train \o call.val

\* the fit of a cycle after a migration, validating on a non-empty set
C26_Witness ==
    /\ Running /\ pc = "adam" /\ i >= 1 /\ query >= 1
    /\ call.val # <<>> /\ call.val = split0.val
    /\ Len(call.train) > Len(split0.train) /\ Len(call.train) > Len(call.val)

\* a step of a repeat active-learning run
FitCalled   == pc = "cycle" /\ pc' = "adam"
FitReturned == pc = "adam" /\ pc' = "tail"

\* C27: in repeat active learning every cycle calls the fit with the whole
\* budget max_iters, starting from the amplitude and length-scale that the
\* fit of the cycle before returned as those of its best iterate; the
\* caller's priors are the starting point of cycle 0 only.  (The driver
\* keeps what a fit returns, changes it nowhere else, and passes it on.)
C27_RepeatCarriesHypers ==
    [][(~noactive /\ repeat) =>
         /\ FitCalled =>
              /\ call'.maxiters = maxitersArg[1]
              /\ call'.amp = amp /\ call'.length_scale = length_scale
              /\ i = 0 => call'.amp = One /\ call'.length_scale = One
         /\ FitReturned =>
              /\ amp' = ret'.amp /\ length_scale' = ret'.length_scale
              /\ IF call.maxiters > 0
                 THEN /\ ret'.amp = OptAmp[ArgMin(Optmae)]
                      /\ ret'.length_scale = OptLength[ArgMin(Optmae)]
                 ELSE /\ ret'.amp = call.amp
                      /\ ret'.length_scale = call.length_scale
         /\ ~FitReturned => amp' = amp /\ length_scale' = length_scale]_vars

\* the last iteration of the optimisation of a later cycle, which started
\* from hyperparameters other than the priors
C27_Witness ==
    /\ ~noactive /\ repeat /\ pc = "adam" /\ i = 1
    /\ call.maxiters = MaxIters /\ it = MaxIters
    /\ call.amp # One /\ call.amp = hyp0.amp /\ OptAmp[it] # hyp0.amp

\* steps of a k-fold run: the call of a fold's fit or of the refit, and the
\* return of a fold's fit
KFoldFitCalled == pc = "fold" /\ pc' = "adam"
FoldReturned   == pc = "adam" /\ pc' = "fold_tail"

\* C28: in k-fold mode the hyperparameters are carried from fit to fit:
\* the fit of fold j + 1 starts from the amplitude and length-scale that
\* the fit of fold j returned, and the refit on the whole pool from those of
\* the last fold, not from the priors and not from the fold of smallest
\* validation MAE.  (main() keeps what a fold's fit returns, changes it
\* nowhere else, and passes it to the next call.)
C28_KFoldCarriesHypers ==
    [][(noactive /\ nsplit > 1) =>
         /\ KFoldFitCalled =>
              /\ call'.amp = amp /\ call'.length_scale = length_scale
              /\ call'.kind = (IF fold < nsplit THEN "k_fold" ELSE "tts")
              /\ fold = 0 => call'.amp = One /\ call'.length_scale = One
         /\ FoldReturned =>
              /\ amp' = ret'.amp /\ length_scale' = ret'.length_scale
              /\ IF call.maxiters > 0
                 THEN /\ ret'.amp = OptAmp[ArgMin(Optmae)]
                      /\ ret'.length_scale = OptLength[ArgMin(Optmae)]
                 ELSE /\ ret'.amp = call.amp
                      /\ ret'.length_scale = call.length_scale
         /\ ~FoldReturned => amp' = amp /\ length_scale' = length_scale]_vars

\* the refit after three folds, starting from hyperparameters that are not
\* the priors
C28_Witness ==
    /\ noactive /\ nsplit = 3 /\ pc = "adam" /\ call.kind = "tts" /\ fold = nsplit
    /\ call.amp # One /\ call.length_scale # One /\ call.amp = amp
    /\ it >= 1


(***************************************************************************)
(* Properties of the no-repeat driver's initial split and of the accepted  *)
(* -cycle values.                                                          *)
(***************************************************************************)
\* the no-repeat loop is about to start on the split just made
NoRepeatStart == ~noactive /\ ~repeat /\ pc = "cycle" /\ i = 0

\* val is the last nval points of the pool and train the points before them
SplitAt(nval) ==
    /\ Len(Xval) = nval
    /\ Len(Xtrain) = Len(Xpool) - nval
    /\ Xtrain \o Xval = Xpool
    /\ Len(Xpool) - nval > 0 => Xtrain # <<>>

\* C29: in no-repeat active learning, for every pool size and every
\* validation fraction that the argument checks accept (fraction < 1), the
\* initial split makes val the last int(len(pool) * fraction) points of the
\* pool and train the points before them; train is not empty when that
\* leaves any.
C29_ValSplitSizes == NoRepeatStart => SplitAt(val_boundary(Xpool))

\* the same for the fractions and pools of which int(len(pool) * fraction)
\* is at least 1
C29_ValSplitSizesPositive ==
    (NoRepeatStart /\ val_boundary(Xpool) >= 1) => SplitAt(val_boundary(Xpool))

\* a pool of which the validation fraction is less than one sample
C29_EmptyTrain ==
    /\ NoRepeatStart /\ fraction[1] > 0 /\ val_boundary(Xpool) = 0
    /\ Xtrain = <<>> /\ Xval = Xpool /\ Xpool # <<>>

\* the argument checks and the adequacy assertion have passed
LoopReached == ~noactive /\ pc \in {"cycle", "adam", "tail", "undefined"}

\* C30: every active-learning configuration that passes the argument
\* checks and the adequacy assertion has quota >= 0 and max_cycles >= 0, so
\* the driver makes at least one fit and never asks the selector for a
\* negative number of points.
C30_NonNegativeCycle ==
    /\ LoopReached => query >= 0 /\ max_query >= 0
    /\ Finished => FitsOf(prop) # {}
    /\ pc = "undefined" => query >= 0

\* a negative number of cycles: the loop has ended without a fit
C30_NoFit ==
    /\ Finished /\ max_query < 0 /\ query > 0 /\ fits = <<>>

\* a negative quota: the selector is called with it
C30_NegativeQuota ==
    /\ ~noactive /\ pc = "undefined" /\ query < 0 /\ max_query > 0 /\ Len(fits) = 1


=============================================================================
